---------------------------- MODULE Spec2Model ----------------------------
(***************************************************************************)
(* Model of the update handlers of src/main.py (a Telegram bot that        *)
(* relays text and voice messages to a transcription and a completion      *)
(* service).                                                               *)
(*                                                                         *)
(* Each inbound update is handled by one coroutine on the event loop. A    *)
(* handler is split into one action per awaited operation (reply_text,     *)
(* get_file, download_to_drive, send_chat_action), per blocking remote     *)
(* call (transcription, completion) and for the finally block. The only    *)
(* state the handlers of different updates share is the file               *)
(* BASE_DIR/temp_voice.ogg; the steps that touch it (the download with the *)
(* read that follows it, and the finally block) are single actions,        *)
(* because the code runs them without an await in between. Every other     *)
(* step reads and writes the state of its own update only.                 *)
(***************************************************************************)
EXTENDS Integers, Sequences, FiniteSets, TLC

\* Number of inbound updates whose handlers may be in flight together.
NumUpdates == 2

Updates == 1 .. NumUpdates

\* Message bodies, transcripts and model outputs, as sequences of tokens.
Bodies == { <<"ho", "sognato">> }

\* Messages whose text starts with a bot command (filters.COMMAND).
CommandTexts == { <<"/start">>, <<"/privacy">>, <<"/help">> }

\* What the transport may deliver: a voice note, a text message (a command or
\* not), or a message that is neither (a photo).
InboundMessages ==
  [kind : {"voice", "photo"}, text : {<<>>}]
    \cup [kind : {"text"}, text : Bodies \cup CommandTexts]

\* What os.getenv may give for a secret: None, an empty string, or a value.
SecretValues ==
  { [set |-> FALSE, value |-> ""], [set |-> TRUE, value |-> ""],
    [set |-> TRUE, value |-> "secret"] }

Transcripts == { <<"volavo">> }

Analyses == { <<"*ombra", "_", " ">> }

\* What the completion endpoint may return when it returns choices: the
\* contents of the choices, the first of which is the analysis.
Completions == { <<a, <<"altra">>>> : a \in Analyses }

\* The text bundle loaded once at startup from resources/texts.json, with the
\* keys the handlers of this model read; the strings stand for the file's.
TEXTS ==
  [ messages |-> [ welcome            |-> <<"*welcome*">>,
                   privacy            |-> <<"*privacy*">>,
                   processing_audio   |-> <<"processing_audio">>,
                   transcription_done |-> <<"transcription_done:", "{text}">>,
                   footer_disclaimer  |-> <<"--", "disclaimer">> ],
    errors   |-> [ generic_error |-> <<"generic_error">>,
                   audio_error   |-> <<"audio_error">> ],
    prompts  |-> [ system_prompt      |-> <<"system_prompt">>,
                   user_input_wrapper |-> <<"dream:", "{user_input}">> ] ]

\* The keys of the bundle that the code reads.
BundleKeys ==
  { "welcome", "privacy", "processing_audio", "transcription_done",
    "footer_disclaimer", "generic_error", "audio_error", "system_prompt",
    "user_input_wrapper" }

\* resources/texts.json as shipped: present, valid JSON, every key in it.
RepositoryResource ==
  [found |-> TRUE, valid_json |-> TRUE, keys |-> BundleKeys]

\* str.format with one named field: every placeholder token is replaced by arg.
RECURSIVE Format(_, _, _)
Format(template, field, arg) ==
  IF template = <<>> THEN <<>>
  ELSE (IF Head(template) = field THEN arg ELSE <<Head(template)>>)
         \o Format(Tail(template), field, arg)

VARIABLES
  TELEGRAM_TOKEN, \* os.getenv("TELEGRAM_TOKEN")
  GROQ_API_KEY,   \* os.getenv("GROQ_API_KEY")
  resource,       \* the file resources/texts.json: [found, valid_json, keys]
  bundle_keys,    \* the keys of TEXTS once load_texts returned
  phase,          \* how far the module's top-level code has run
  handlers,       \* the handlers registered on the application, in order
  handler,        \* handler[i]: the handler update i was given to
  chat_completion,\* chat_completion[i]: the contents of the choices returned
  update,         \* update[i]: the inbound message, [kind, text]
  pc,             \* pc[i]: where the handler of update i stands
  file,           \* temp_voice.ogg: <<>> when absent, <<i>> when it holds i's audio
  trace,          \* trace[i]: the remote operations of update i, in order
  pending,        \* pending[i]: an exception is in flight through the finally block
  user_text,      \* user_text[i]: argument of generate_jungian_response
  full_response,  \* full_response[i]: analysis plus disclaimer, <<>> before it exists
  completion,     \* completion[i]: outcome of the completion call
  audio,          \* audio[i]: the bytes file.read() gave, <<j>> when they are j's audio
  file_at_exit    \* file_at_exit[i]: temp_ogg_path.exists() as the voice handler ends

\* What the top-level code of the module sets; the handlers only read it.
startup ==
  << TELEGRAM_TOKEN, GROQ_API_KEY, resource, bundle_keys, phase, handlers >>

vars == << startup, handler, chat_completion, update, pc, file, trace,
           pending, user_text, full_response, completion, audio,
           file_at_exit >>

Ev(op, text, mode, ok) == [op |-> op, text |-> text, mode |-> mode, ok |-> ok]

Log(i, e) == [trace EXCEPT ![i] = Append(@, e)]

Terminal == {"returned", "raised"}

\* Handlers never read the number of an update, and Dispatch takes the
\* updates in any order, so renumbering the updates of a behaviour gives a
\* behaviour again. The updates are therefore numbered by kind, which keeps
\* one representative of each renumbering.
Rank(u) ==
  IF u.kind = "voice" THEN 1
  ELSE IF u.kind = "photo" THEN 6
  ELSE IF u.text = <<"/start">> THEN 3
  ELSE IF u.text = <<"/privacy">> THEN 4
  ELSE IF u.text = <<"/help">> THEN 5
  ELSE 2

\* The process starts: nothing has run, no update has been handled.
InitProcess ==
  /\ bundle_keys = {}
  /\ phase = "import"
  /\ handlers = <<>>
  /\ handler = [i \in Updates |-> "unset"]
  /\ chat_completion = [i \in Updates |-> <<>>]
  /\ update \in [Updates -> InboundMessages]
  /\ \A i, j \in Updates : i < j => Rank(update[i]) <= Rank(update[j])
  /\ pc = [i \in Updates |-> "waiting"]
  /\ file = <<>>
  /\ trace = [i \in Updates |-> <<>>]
  /\ pending = [i \in Updates |-> FALSE]
  /\ user_text = [i \in Updates |-> <<>>]
  /\ full_response = [i \in Updates |-> <<>>]
  /\ completion = [i \in Updates |-> "none"]
  /\ audio = [i \in Updates |-> <<>>]
  /\ file_at_exit = [i \in Updates |-> "unset"]

\* The repository's resource file, under any environment.
Init ==
  /\ TELEGRAM_TOKEN \in SecretValues
  /\ GROQ_API_KEY \in SecretValues
  /\ resource = RepositoryResource
  /\ InitProcess

-----------------------------------------------------------------------------
(* Module top level and __main__ *)

\* Python's truth value of a secret: None and the empty string are falsy.
Falsy(secret) == ~secret.set \/ secret.value = ""

\* The check written with `and`: it raises only when both secrets are missing.
ValidateKeysBothMissing ==
  /\ phase = "import"
  /\ phase' = IF Falsy(TELEGRAM_TOKEN) /\ Falsy(GROQ_API_KEY)
               THEN "aborted" ELSE "validated"
  /\ UNCHANGED << TELEGRAM_TOKEN, GROQ_API_KEY, resource, bundle_keys,
                  handlers, handler, chat_completion, update, pc, file,
                  trace, pending, user_text, full_response, completion,
                  audio, file_at_exit >>

\* Lines 32-34: raise ValueError when a secret is missing.
ValidateKeys ==
  /\ phase = "import"
  /\ phase' = IF Falsy(TELEGRAM_TOKEN) \/ Falsy(GROQ_API_KEY)
               THEN "aborted" ELSE "validated"
  /\ UNCHANGED << TELEGRAM_TOKEN, GROQ_API_KEY, resource, bundle_keys,
                  handlers, handler, chat_completion, update, pc, file,
                  trace, pending, user_text, full_response, completion,
                  audio, file_at_exit >>

\* Lines 48-61: TEXTS = load_texts(); FileNotFoundError and JSONDecodeError
\* are logged and raised again, anything that parses is returned as it is.
load_texts ==
  /\ phase = "validated"
  /\ IF resource.found /\ resource.valid_json
     THEN bundle_keys' = resource.keys /\ phase' = "loaded"
     ELSE bundle_keys' = bundle_keys /\ phase' = "aborted"
  /\ UNCHANGED << TELEGRAM_TOKEN, GROQ_API_KEY, resource, handlers, handler,
                  chat_completion, update, pc, file, trace, pending,
                  user_text, full_response, completion, audio,
                  file_at_exit >>

\* Lines 170-189: the handlers are registered in this order, then polling
\* starts.
Main ==
  /\ phase = "loaded"
  /\ handlers' = << "start_command", "privacy_command",
                    "handle_voice_message", "handle_text_message" >>
  /\ phase' = "polling"
  /\ UNCHANGED << TELEGRAM_TOKEN, GROQ_API_KEY, resource, bundle_keys,
                  handler, chat_completion, update, pc, file, trace, pending,
                  user_text, full_response, completion, audio,
                  file_at_exit >>

\* TEXTS[...][key] raises KeyError unless the loaded bundle holds the key.
Has(key) == key \in bundle_keys

-----------------------------------------------------------------------------
(* Dispatch *)

\* filters.COMMAND: a text message that starts with a bot command.
IsCommand(u) == u.kind = "text" /\ u.text \in CommandTexts

\* The text handler registered with filters.TEXT alone: it takes commands too.
MatchesTextWithCommands(h, u) ==
  CASE h = "start_command" -> IsCommand(u) /\ Head(u.text) = "/start"
    [] h = "privacy_command" -> IsCommand(u) /\ Head(u.text) = "/privacy"
    [] h = "handle_voice_message" -> u.kind = "voice"
    [] h = "handle_text_message" -> u.kind = "text"

\* The filter each handler was registered with (lines 179-186).
Matches(h, u) ==
  CASE h = "start_command" -> IsCommand(u) /\ Head(u.text) = "/start"
    [] h = "privacy_command" -> IsCommand(u) /\ Head(u.text) = "/privacy"
    [] h = "handle_voice_message" -> u.kind = "voice"
    [] h = "handle_text_message" -> u.kind = "text" /\ ~IsCommand(u)

\* The application gives an update to the first registered handler whose
\* filter matches it, and to none when no filter matches.
Route(u) ==
  LET matching == { k \in DOMAIN handlers : Matches(handlers[k], u) }
  IN IF matching = {} THEN "none"
     ELSE handlers[CHOOSE k \in matching : \A m \in matching : k <= m]

\* The typing indicator left out: the handler starts with the generation.
TextEntryWithoutTyping == "g_complete"

\* First step of handle_text_message.
TextEntry == "t_typing"

\* First step of handle_voice_message.
VoiceEntry == "v_processing"

\* First step of each handler; an update no handler takes is dropped.
Entry(h) ==
  CASE h = "start_command" -> "c_start"
    [] h = "privacy_command" -> "c_privacy"
    [] h = "handle_voice_message" -> VoiceEntry
    [] h = "handle_text_message" -> TextEntry
    [] h = "none" -> "ignored"

\* run_polling: an update arrives and is given to its handler.
Dispatch(i) ==
  /\ phase = "polling"
  /\ pc[i] = "waiting"
  /\ handler' = [handler EXCEPT ![i] = Route(update[i])]
  /\ pc' = [pc EXCEPT ![i] = Entry(handler'[i])]
  /\ UNCHANGED << startup, chat_completion, update, file, trace, pending,
                  user_text, full_response, completion, audio,
                  file_at_exit >>

-----------------------------------------------------------------------------
(* start_command, privacy_command *)

\* A start command that goes on to send the privacy text as well.
start_command_then_privacy(i) ==
  /\ pc[i] = "c_start"
  /\ IF Has("welcome")
     THEN \E ok \in BOOLEAN :
            /\ trace' = Log(i, Ev("reply", TEXTS.messages.welcome,
                                   "Markdown", ok))
            /\ pc' = [pc EXCEPT ![i] = IF ok THEN "c_privacy" ELSE "raised"]
     ELSE /\ pc' = [pc EXCEPT ![i] = "raised"]
          /\ UNCHANGED trace
  /\ UNCHANGED << startup, handler, chat_completion, update, file, pending,
                  user_text, full_response, completion, audio,
                  file_at_exit >>

\* Lines 107-109: reply_text(welcome, parse_mode="Markdown"), outside any try.
start_command(i) ==
  /\ pc[i] = "c_start"
  /\ IF Has("welcome")
     THEN \E ok \in BOOLEAN :
            /\ trace' = Log(i, Ev("reply", TEXTS.messages.welcome,
                                   "Markdown", ok))
            /\ pc' = [pc EXCEPT ![i] = IF ok THEN "returned" ELSE "raised"]
     ELSE /\ pc' = [pc EXCEPT ![i] = "raised"]
          /\ UNCHANGED trace
  /\ UNCHANGED << startup, handler, chat_completion, update, file, pending,
                  user_text, full_response, completion, audio,
                  file_at_exit >>

\* Lines 111-113: reply_text(privacy, parse_mode="Markdown"), outside any try.
privacy_command(i) ==
  /\ pc[i] = "c_privacy"
  /\ IF Has("privacy")
     THEN \E ok \in BOOLEAN :
            /\ trace' = Log(i, Ev("reply", TEXTS.messages.privacy,
                                   "Markdown", ok))
            /\ pc' = [pc EXCEPT ![i] = IF ok THEN "returned" ELSE "raised"]
     ELSE /\ pc' = [pc EXCEPT ![i] = "raised"]
          /\ UNCHANGED trace
  /\ UNCHANGED << startup, handler, chat_completion, update, file, pending,
                  user_text, full_response, completion, audio,
                  file_at_exit >>

-----------------------------------------------------------------------------
(* generate_jungian_response *)

\* The audio_error reply placed where it runs on every exit of the try block.
GenReturnThroughExcept(i) ==
  IF update[i].kind = "voice" THEN "v_audio_error" ELSE "returned"

\* Where control goes when generate_jungian_response returns normally.
GenReturn(i) == IF update[i].kind = "voice" THEN "v_finally" ELSE "returned"

\* Where control goes when generate_jungian_response raises.
GenRaise(i) == IF update[i].kind = "voice" THEN "v_audio_error" ELSE "raised"

\* An except clause that catches the provider's errors only: the IndexError of
\* an empty choices list escapes generate_jungian_response.
CompleteCatchingApiErrorsOnly(i) ==
  /\ pc[i] = "g_complete"
  /\ IF ~(Has("user_input_wrapper") /\ Has("system_prompt"))
     THEN /\ pc' = [pc EXCEPT ![i] = "g_error"]
          /\ UNCHANGED << trace, completion, chat_completion,
                          full_response >>
     ELSE LET wrapped_input ==
                Format(TEXTS.prompts.user_input_wrapper, "{user_input}",
                       user_text[i])
              messages ==
                << [role |-> "system",
                    content |-> TEXTS.prompts.system_prompt],
                   [role |-> "user", content |-> wrapped_input] >>
          IN \/ \E choices \in Completions :
                  LET analysis == Head(choices)
                  IN /\ trace' = Log(i, Ev("complete", messages, "-", TRUE))
                     /\ completion' = [completion EXCEPT ![i] = "ok"]
                     /\ chat_completion' =
                          [chat_completion EXCEPT ![i] = choices]
                     /\ IF Has("footer_disclaimer")
                        THEN /\ full_response' =
                                  [full_response EXCEPT
                                     ![i] = analysis
                                              \o TEXTS.messages.footer_disclaimer]
                             /\ pc' = [pc EXCEPT ![i] = "g_rich"]
                        ELSE /\ pc' = [pc EXCEPT ![i] = "g_error"]
                             /\ UNCHANGED full_response
             \/ \E outcome \in {"raised", "no_choice"} :
                  /\ trace' = Log(i, Ev("complete", messages, "-",
                                        outcome = "no_choice"))
                  /\ completion' = [completion EXCEPT ![i] = outcome]
                  /\ pc' = [pc EXCEPT ![i] = IF outcome = "no_choice"
                                              THEN GenRaise(i) ELSE "g_error"]
                  /\ UNCHANGED << chat_completion, full_response >>
  /\ UNCHANGED << startup, handler, update, file, pending, user_text, audio,
                  file_at_exit >>

\* The model's output stripped of its surrounding whitespace (str.strip)
\* before the disclaimer is appended.
CompleteStrippingOutput(i) ==
  /\ pc[i] = "g_complete"
  /\ IF ~(Has("user_input_wrapper") /\ Has("system_prompt"))
     THEN /\ pc' = [pc EXCEPT ![i] = "g_error"]
          /\ UNCHANGED << trace, completion, chat_completion,
                          full_response >>
     ELSE LET wrapped_input ==
                Format(TEXTS.prompts.user_input_wrapper, "{user_input}",
                       user_text[i])
              messages ==
                << [role |-> "system",
                    content |-> TEXTS.prompts.system_prompt],
                   [role |-> "user", content |-> wrapped_input] >>
          IN \/ \E choices \in Completions :
                  LET analysis == SelectSeq(Head(choices), LAMBDA t : t # " ")
                  IN /\ trace' = Log(i, Ev("complete", messages, "-", TRUE))
                     /\ completion' = [completion EXCEPT ![i] = "ok"]
                     /\ chat_completion' =
                          [chat_completion EXCEPT ![i] = choices]
                     /\ IF Has("footer_disclaimer")
                        THEN /\ full_response' =
                                  [full_response EXCEPT
                                     ![i] = analysis
                                              \o TEXTS.messages.footer_disclaimer]
                             /\ pc' = [pc EXCEPT ![i] = "g_rich"]
                        ELSE /\ pc' = [pc EXCEPT ![i] = "g_error"]
                             /\ UNCHANGED full_response
             \/ \E outcome \in {"raised", "no_choice"} :
                  /\ trace' = Log(i, Ev("complete", messages, "-",
                                        outcome = "no_choice"))
                  /\ completion' = [completion EXCEPT ![i] = outcome]
                  /\ pc' = [pc EXCEPT ![i] = "g_error"]
                  /\ UNCHANGED << chat_completion, full_response >>
  /\ UNCHANGED << startup, handler, update, file, pending, user_text, audio,
                  file_at_exit >>

\* Lines 72-92: wrap the input, call the completion endpoint with the system
\* and user messages, take the content of the first choice and append the
\* disclaimer. Any exception, a KeyError of the bundle included, goes to the
\* outer except.
Complete(i) ==
  /\ pc[i] = "g_complete"
  /\ IF ~(Has("user_input_wrapper") /\ Has("system_prompt"))
     THEN /\ pc' = [pc EXCEPT ![i] = "g_error"]
          /\ UNCHANGED << trace, completion, chat_completion,
                          full_response >>
     ELSE LET wrapped_input ==
                Format(TEXTS.prompts.user_input_wrapper, "{user_input}",
                       user_text[i])
              messages ==
                << [role |-> "system",
                    content |-> TEXTS.prompts.system_prompt],
                   [role |-> "user", content |-> wrapped_input] >>
          IN \/ \E choices \in Completions :
                  LET analysis == Head(choices)
                  IN /\ trace' = Log(i, Ev("complete", messages, "-", TRUE))
                     /\ completion' = [completion EXCEPT ![i] = "ok"]
                     /\ chat_completion' =
                          [chat_completion EXCEPT ![i] = choices]
                     /\ IF Has("footer_disclaimer")
                        THEN /\ full_response' =
                                  [full_response EXCEPT
                                     ![i] = analysis
                                              \o TEXTS.messages.footer_disclaimer]
                             /\ pc' = [pc EXCEPT ![i] = "g_rich"]
                        ELSE /\ pc' = [pc EXCEPT ![i] = "g_error"]
                             /\ UNCHANGED full_response
             \/ \E outcome \in {"raised", "no_choice"} :
                  /\ trace' = Log(i, Ev("complete", messages, "-",
                                        outcome = "no_choice"))
                  /\ completion' = [completion EXCEPT ![i] = outcome]
                  /\ pc' = [pc EXCEPT ![i] = "g_error"]
                  /\ UNCHANGED << chat_completion, full_response >>
  /\ UNCHANGED << startup, handler, update, file, pending, user_text, audio,
                  file_at_exit >>

\* Line 96: reply_text(full_response, parse_mode="Markdown").
SendRich(i) ==
  /\ pc[i] = "g_rich"
  /\ \E ok \in BOOLEAN :
       /\ trace' = Log(i, Ev("reply", full_response[i], "Markdown", ok))
       /\ pc' = [pc EXCEPT ![i] = IF ok THEN GenReturn(i) ELSE "g_plain"]
  /\ UNCHANGED << startup, handler, chat_completion, update, file, pending,
                  user_text, full_response, completion, audio,
                  file_at_exit >>

\* The inner try written after the outer one instead of inside it: a failed
\* plain retry leaves generate_jungian_response at once.
SendPlainPropagating(i) ==
  /\ pc[i] = "g_plain"
  /\ \E ok \in BOOLEAN :
       /\ trace' = Log(i, Ev("reply", full_response[i], "None", ok))
       /\ pc' = [pc EXCEPT ![i] = IF ok THEN GenReturn(i) ELSE GenRaise(i)]
  /\ UNCHANGED << startup, handler, chat_completion, update, file, pending,
                  user_text, full_response, completion, audio,
                  file_at_exit >>

\* A fallback that strips the markup from the text instead of resending it
\* unchanged.
SendPlainStripped(i) ==
  /\ pc[i] = "g_plain"
  /\ \E ok \in BOOLEAN :
       /\ trace' = Log(i, Ev("reply",
                              SelectSeq(full_response[i], LAMBDA t : t # "_"),
                              "None", ok))
       /\ pc' = [pc EXCEPT ![i] = IF ok THEN GenReturn(i) ELSE "g_error"]
  /\ UNCHANGED << startup, handler, chat_completion, update, file, pending,
                  user_text, full_response, completion, audio,
                  file_at_exit >>

\* Lines 97-99: the inner except, reply_text(full_response, parse_mode=None).
\* The inner try lies inside the outer one: a failure here goes to line 101.
SendPlain(i) ==
  /\ pc[i] = "g_plain"
  /\ \E ok \in BOOLEAN :
       /\ trace' = Log(i, Ev("reply", full_response[i], "None", ok))
       /\ pc' = [pc EXCEPT ![i] = IF ok THEN GenReturn(i) ELSE "g_error"]
  /\ UNCHANGED << startup, handler, chat_completion, update, file, pending,
                  user_text, full_response, completion, audio,
                  file_at_exit >>

\* An outer except that raises again after it told the user.
SendGenericErrorReraising(i) ==
  /\ pc[i] = "g_error"
  /\ IF Has("generic_error")
     THEN \E ok \in BOOLEAN :
            /\ trace' = Log(i, Ev("reply", TEXTS.errors.generic_error,
                                   "None", ok))
            /\ pc' = [pc EXCEPT ![i] = GenRaise(i)]
     ELSE /\ pc' = [pc EXCEPT ![i] = GenRaise(i)]
          /\ UNCHANGED trace
  /\ UNCHANGED << startup, handler, chat_completion, update, file, pending,
                  user_text, full_response, completion, audio,
                  file_at_exit >>

\* Lines 101-103: the outer except, reply_text(generic_error). A KeyError of
\* the bundle here leaves the routine like a failure of the send.
SendGenericError(i) ==
  /\ pc[i] = "g_error"
  /\ IF Has("generic_error")
     THEN \E ok \in BOOLEAN :
            /\ trace' = Log(i, Ev("reply", TEXTS.errors.generic_error,
                                   "None", ok))
            /\ pc' = [pc EXCEPT ![i] = IF ok THEN GenReturn(i)
                                        ELSE GenRaise(i)]
     ELSE /\ pc' = [pc EXCEPT ![i] = GenRaise(i)]
          /\ UNCHANGED trace
  /\ UNCHANGED << startup, handler, chat_completion, update, file, pending,
                  user_text, full_response, completion, audio,
                  file_at_exit >>

-----------------------------------------------------------------------------
(* handle_text_message *)

\* Lines 163-166: the typing indicator, awaited outside any try, then the
\* message text is handed to generate_jungian_response.
SendChatAction(i) ==
  /\ pc[i] = "t_typing"
  /\ \E ok \in BOOLEAN :
       /\ trace' = Log(i, Ev("typing", <<>>, "-", ok))
       /\ pc' = [pc EXCEPT ![i] = IF ok THEN "g_complete" ELSE "raised"]
       /\ user_text' = [user_text EXCEPT
                          ![i] = IF ok THEN update[i].text ELSE @]
  /\ UNCHANGED << startup, handler, chat_completion, update, file, pending,
                  full_response, completion, audio, file_at_exit >>

-----------------------------------------------------------------------------
(* handle_voice_message *)

\* Line 122: the processing notice, awaited before the try block.
ReplyProcessingAudio(i) ==
  /\ pc[i] = "v_processing"
  /\ IF Has("processing_audio")
     THEN \E ok \in BOOLEAN :
            /\ trace' = Log(i, Ev("reply", TEXTS.messages.processing_audio,
                                   "None", ok))
            /\ pc' = [pc EXCEPT ![i] = IF ok THEN "v_get_file" ELSE "raised"]
     ELSE /\ pc' = [pc EXCEPT ![i] = "raised"]
          /\ UNCHANGED trace
  /\ UNCHANGED << startup, handler, chat_completion, update, file, pending,
                  user_text, full_response, completion, audio,
                  file_at_exit >>

\* get_file awaited before the try statement: its failure is not caught.
GetFileOutsideTry(i) ==
  /\ pc[i] = "v_get_file"
  /\ \E ok \in BOOLEAN :
       /\ trace' = Log(i, Ev("get_file", <<>>, "-", ok))
       /\ pc' = [pc EXCEPT ![i] = IF ok THEN "v_download" ELSE "raised"]
  /\ UNCHANGED << startup, handler, chat_completion, update, file, pending,
                  user_text, full_response, completion, audio,
                  file_at_exit >>

\* Line 129: context.bot.get_file.
GetFile(i) ==
  /\ pc[i] = "v_get_file"
  /\ \E ok \in BOOLEAN :
       /\ trace' = Log(i, Ev("get_file", <<>>, "-", ok))
       /\ pc' = [pc EXCEPT ![i] = IF ok THEN "v_download" ELSE "v_audio_error"]
  /\ UNCHANGED << startup, handler, chat_completion, update, file, pending,
                  user_text, full_response, completion, audio,
                  file_at_exit >>

\* A download whose failure is swallowed: the handler goes on to transcribe.
DownloadIgnoringFailure(i) ==
  /\ pc[i] = "v_download"
  /\ \/ /\ file' = <<i>>
        /\ audio' = [audio EXCEPT ![i] = file']
        /\ trace' = Log(i, Ev("download", <<>>, "-", TRUE))
     \/ /\ file' \in {file, <<i>>}
        /\ trace' = Log(i, Ev("download", <<>>, "-", FALSE))
        /\ UNCHANGED audio
  /\ pc' = [pc EXCEPT ![i] = "v_transcribe"]
  /\ UNCHANGED << startup, handler, chat_completion, update, pending,
                  user_text, full_response, completion, file_at_exit >>

\* Lines 130-136: download_to_drive writes temp_voice.ogg as it completes and
\* the handler resumes without yielding: open() and file.read() see the bytes
\* just written. A failed download may leave a partial file behind.
DownloadToDrive(i) ==
  /\ pc[i] = "v_download"
  /\ \/ /\ file' = <<i>>
        /\ audio' = [audio EXCEPT ![i] = file']
        /\ trace' = Log(i, Ev("download", <<>>, "-", TRUE))
        /\ pc' = [pc EXCEPT ![i] = "v_transcribe"]
     \/ /\ file' \in {file, <<i>>}
        /\ trace' = Log(i, Ev("download", <<>>, "-", FALSE))
        /\ pc' = [pc EXCEPT ![i] = "v_audio_error"]
        /\ UNCHANGED audio
  /\ UNCHANGED << startup, handler, chat_completion, update, pending,
                  user_text, full_response, completion, file_at_exit >>

\* A transcription whose failure is swallowed: the handler goes on with an
\* empty transcript.
TranscribeIgnoringFailure(i) ==
  /\ pc[i] = "v_transcribe"
  /\ \/ \E transcribed_text \in Transcripts :
          /\ trace' = Log(i, Ev("transcribe", <<>>, "-", TRUE))
          /\ user_text' = [user_text EXCEPT ![i] = transcribed_text]
     \/ /\ trace' = Log(i, Ev("transcribe", <<>>, "-", FALSE))
        /\ UNCHANGED user_text
  /\ pc' = [pc EXCEPT ![i] = "v_transcription_done"]
  /\ UNCHANGED << startup, handler, chat_completion, update, file, pending,
                  full_response, completion, audio, file_at_exit >>

\* Lines 135-142: the blocking transcription call on the bytes read.
Transcribe(i) ==
  /\ pc[i] = "v_transcribe"
  /\ \/ \E transcribed_text \in Transcripts :
          /\ trace' = Log(i, Ev("transcribe", <<>>, "-", TRUE))
          /\ user_text' = [user_text EXCEPT ![i] = transcribed_text]
          /\ pc' = [pc EXCEPT ![i] = "v_transcription_done"]
     \/ /\ trace' = Log(i, Ev("transcribe", <<>>, "-", FALSE))
        /\ pc' = [pc EXCEPT ![i] = "v_audio_error"]
        /\ UNCHANGED user_text
  /\ UNCHANGED << startup, handler, chat_completion, update, file, pending,
                  full_response, completion, audio, file_at_exit >>

\* A transcription_done reply whose failure is swallowed: the generation runs
\* all the same.
ReplyTranscriptionDoneIgnoringFailure(i) ==
  /\ pc[i] = "v_transcription_done"
  /\ IF Has("transcription_done")
     THEN LET feedback_msg ==
                Format(TEXTS.messages.transcription_done, "{text}",
                       user_text[i])
          IN \E ok \in BOOLEAN :
               /\ trace' = Log(i, Ev("reply", feedback_msg, "Markdown", ok))
               /\ pc' = [pc EXCEPT ![i] = "g_complete"]
     ELSE /\ pc' = [pc EXCEPT ![i] = "v_audio_error"]
          /\ UNCHANGED trace
  /\ UNCHANGED << startup, handler, chat_completion, update, file, pending,
                  user_text, full_response, completion, audio,
                  file_at_exit >>

\* Lines 145-149: reply with the transcription, then enter the generation.
ReplyTranscriptionDone(i) ==
  /\ pc[i] = "v_transcription_done"
  /\ IF Has("transcription_done")
     THEN LET feedback_msg ==
                Format(TEXTS.messages.transcription_done, "{text}",
                       user_text[i])
          IN \E ok \in BOOLEAN :
               /\ trace' = Log(i, Ev("reply", feedback_msg, "Markdown", ok))
               /\ pc' = [pc EXCEPT ![i] = IF ok THEN "g_complete"
                                           ELSE "v_audio_error"]
     ELSE /\ pc' = [pc EXCEPT ![i] = "v_audio_error"]
          /\ UNCHANGED trace
  /\ UNCHANGED << startup, handler, chat_completion, update, file, pending,
                  user_text, full_response, completion, audio,
                  file_at_exit >>

\* Lines 151-153: the except block; a failure of this reply stays in flight.
ReplyAudioError(i) ==
  /\ pc[i] = "v_audio_error"
  /\ IF Has("audio_error")
     THEN \E ok \in BOOLEAN :
            /\ trace' = Log(i, Ev("reply", TEXTS.errors.audio_error, "None",
                                   ok))
            /\ pending' = [pending EXCEPT ![i] = ~ok]
     ELSE /\ pending' = [pending EXCEPT ![i] = TRUE]
          /\ UNCHANGED trace
  /\ pc' = [pc EXCEPT ![i] = "v_finally"]
  /\ UNCHANGED << startup, handler, chat_completion, update, file, user_text,
                  full_response, completion, audio, file_at_exit >>

\* Lines 157-158: if temp_ogg_path.exists(): os.remove(temp_ogg_path).
Cleanup(f) == IF f # <<>> THEN <<>> ELSE f

\* The cleanup placed after the try statement instead of in its finally block:
\* an exception in flight skips it.
FinallySkippedOnError(i) ==
  /\ pc[i] = "v_finally"
  /\ file' = IF pending[i] THEN file ELSE Cleanup(file)
  /\ file_at_exit' = [file_at_exit EXCEPT
                        ![i] = IF file' = <<>> THEN "absent" ELSE "present"]
  /\ pc' = [pc EXCEPT ![i] = IF pending[i] THEN "raised" ELSE "returned"]
  /\ UNCHANGED << startup, handler, chat_completion, update, trace, pending,
                  user_text, full_response, completion, audio >>

\* Lines 155-158: the finally block, then the handler returns or re-raises.
Finally(i) ==
  /\ pc[i] = "v_finally"
  /\ file' = Cleanup(file)
  /\ file_at_exit' = [file_at_exit EXCEPT
                        ![i] = IF file' = <<>> THEN "absent" ELSE "present"]
  /\ pc' = [pc EXCEPT ![i] = IF pending[i] THEN "raised" ELSE "returned"]
  /\ UNCHANGED << startup, handler, chat_completion, update, trace, pending,
                  user_text, full_response, completion, audio >>

-----------------------------------------------------------------------------

Next ==
  \/ ValidateKeys
  \/ load_texts
  \/ Main
  \/ \E i \in Updates :
       \/ Dispatch(i)
       \/ start_command(i)
       \/ privacy_command(i)
       \/ SendChatAction(i)
       \/ ReplyProcessingAudio(i)
       \/ GetFile(i)
       \/ DownloadToDrive(i)
       \/ Transcribe(i)
       \/ ReplyTranscriptionDone(i)
       \/ Complete(i)
       \/ SendRich(i)
       \/ SendPlain(i)
       \/ SendGenericError(i)
       \/ ReplyAudioError(i)
       \/ Finally(i)

Spec == Init /\ [][Next]_vars

\* What resources/texts.json may be: absent, not JSON, or a JSON bundle with
\* every key or with one of the keys missing.
Resources ==
  { [found |-> FALSE, valid_json |-> FALSE, keys |-> {}],
    [found |-> TRUE, valid_json |-> FALSE, keys |-> {}] }
    \cup { [found |-> TRUE, valid_json |-> TRUE, keys |-> BundleKeys \ missing] :
             missing \in {{}} \cup {{k} : k \in BundleKeys} }

\* Any resource file, with both secrets set.
InitAnyResource ==
  /\ TELEGRAM_TOKEN = [set |-> TRUE, value |-> "secret"]
  /\ GROQ_API_KEY = [set |-> TRUE, value |-> "secret"]
  /\ resource \in Resources
  /\ InitProcess

SpecAnyResource == InitAnyResource /\ [][Next]_vars


-----------------------------------------------------------------------------
(* Observations on the trace of one update *)

IsVoice(i) == update[i].kind = "voice"

IsText(i) == handler[i] = "handle_text_message"

Ended(i) == pc[i] \in Terminal

\* The positions of trace[i] holding an event of the given operation.
At(i, op) == { k \in DOMAIN trace[i] : trace[i][k].op = op }

\* The positions of trace[i] holding a reply_text of the given text.
Sends(i, text) ==
  { k \in At(i, "reply") : trace[i][k].text = text }

\* The positions of trace[i] holding a reply_text of the generated response.
ResponseSends(i) ==
  IF full_response[i] = <<>> THEN {} ELSE Sends(i, full_response[i])

Failed(i, op) == \E k \in At(i, op) : ~trace[i][k].ok

Succeeded(i, op) == \E k \in At(i, op) : trace[i][k].ok

\* The voice handler got past the processing notice and entered its try block.
EnteredTry(i) ==
  IsVoice(i) /\ trace[i] # <<>> /\ trace[i][1].ok

-----------------------------------------------------------------------------
(* C1 *)

\* C1: whenever a voice handler that got past its processing notice has
\* returned or ended abnormally, temp_voice.ogg did not exist on disk at the
\* moment it ended, whichever step failed on the way.
C1_TempFileAbsentAtExit ==
  \A i \in Updates :
    (EnteredTry(i) /\ Ended(i)) => file_at_exit[i] = "absent"

\* A voice handler that downloaded its audio, failed later, failed to send
\* audio_error too and ended abnormally, with the file gone.
C1_Witness ==
  \E i \in Updates :
    /\ EnteredTry(i) /\ pc[i] = "raised"
    /\ Succeeded(i, "download")
    /\ file_at_exit[i] = "absent"

-----------------------------------------------------------------------------
(* C2 *)

-----------------------------------------------------------------------------
(* C3 *)

\* C3: the generated response is sent in rich mode first; if that send
\* fails it is sent once more, in plain mode, with the identical text, and
\* never a third time whether the retry succeeds or not; if the rich send
\* succeeds there is no plain send of the response.
C3_OneRetryInPlainMode ==
  \A i \in Updates :
    LET R == ResponseSends(i)
        rich == { k \in R : trace[i][k].mode = "Markdown" }
        plain == { k \in R : trace[i][k].mode = "None" }
    IN /\ Cardinality(rich) <= 1
       /\ Cardinality(plain) <= 1
       /\ R = rich \cup plain
       /\ \A k \in rich :
            /\ trace[i][k].ok => plain = {}
            /\ (~trace[i][k].ok /\ pc[i] # "g_plain") => plain = {k + 1}
       /\ \A k \in plain : k - 1 \in rich /\ ~trace[i][k - 1].ok

\* Both the rich send and the plain retry failed, the handler has ended, and
\* the response text was sent exactly twice.
C3_Witness ==
  \E i \in Updates :
    /\ Ended(i)
    /\ Cardinality(ResponseSends(i)) = 2
    /\ \A k \in ResponseSends(i) : ~trace[i][k].ok

-----------------------------------------------------------------------------
(* C4 *)

\* The plain-mode retry of the generated response was made and failed.
PlainRetryFailed(i) ==
  \E k \in ResponseSends(i) : trace[i][k].mode = "None" /\ ~trace[i][k].ok

\* C4 as stated: once the plain-mode retry has failed, no pre-scripted error
\* message is sent for the update and the handler ends abnormally.
C4_PlainFailurePropagates ==
  \A i \in Updates :
    PlainRetryFailed(i) =>
      /\ Sends(i, TEXTS.errors.generic_error) = {}
      /\ Sends(i, TEXTS.errors.audio_error) = {}
      /\ Ended(i) => pc[i] = "raised"

\* C4 amended: a failed plain-mode retry is caught by the outer except of
\* the generation routine, whose next step is one generic_error send. The
\* error leaves the routine only if that send fails too: the text handler
\* then ends abnormally, and the voice handler sends audio_error and ends
\* abnormally only if that send fails as well.
C4_PlainFailureAbsorbed ==
  \A i \in Updates :
    \A k \in ResponseSends(i) :
      (trace[i][k].mode = "None" /\ ~trace[i][k].ok) =>
        \/ pc[i] = "g_error" /\ Len(trace[i]) = k
        \/ /\ Len(trace[i]) > k
           /\ trace[i][k + 1] = Ev("reply", TEXTS.errors.generic_error, "None",
                                   trace[i][k + 1].ok)
           /\ Sends(i, TEXTS.errors.generic_error) = {k + 1}
           /\ IF trace[i][k + 1].ok
              THEN /\ pc[i] \in {GenReturn(i), "returned"}
                   /\ Len(trace[i]) = k + 1
              ELSE IF IsText(i)
              THEN pc[i] = "raised" /\ Len(trace[i]) = k + 1
              ELSE \/ pc[i] = "v_audio_error" /\ Len(trace[i]) = k + 1
                   \/ /\ Len(trace[i]) = k + 2
                      /\ trace[i][k + 2].op = "reply"
                      /\ trace[i][k + 2].text = TEXTS.errors.audio_error
                      /\ Ended(i) =>
                           (pc[i] = "raised" <=> ~trace[i][k + 2].ok)

\* The plain retry failed, generic_error was delivered and the handler
\* returned normally.
C4_Witness ==
  \E i \in Updates :
    /\ PlainRetryFailed(i)
    /\ pc[i] = "returned"
    /\ \E k \in Sends(i, TEXTS.errors.generic_error) : trace[i][k].ok

-----------------------------------------------------------------------------
(* C5 *)

CompletionFailed(i) == completion[i] \in {"raised", "no_choice"}

\* C5: when the completion call raises or returns no usable first choice,
\* the generation routine's next step is one generic_error send, no analysis
\* text is ever sent, and if that send succeeds the routine returns normally
\* to its caller (which sends no audio_error).
C5_GenerationFailureAbsorbed ==
  \A i \in Updates :
    CompletionFailed(i) =>
      \A k \in At(i, "complete") :
        /\ \A j \in At(i, "reply") :
             j > k => trace[i][j].text \in {TEXTS.errors.generic_error,
                                             TEXTS.errors.audio_error}
        /\ \/ pc[i] = "g_error" /\ Len(trace[i]) = k
           \/ /\ Len(trace[i]) > k
              /\ trace[i][k + 1] = Ev("reply", TEXTS.errors.generic_error, "None",
                                      trace[i][k + 1].ok)
              /\ trace[i][k + 1].ok =>
                   /\ pc[i] \in {GenReturn(i), "returned"}
                   /\ Len(trace[i]) = k + 1

\* The completion returned no usable choice, generic_error was delivered and
\* the handler returned normally.
C5_Witness ==
  \E i \in Updates :
    /\ completion[i] = "no_choice"
    /\ pc[i] = "returned"
    /\ \E k \in Sends(i, TEXTS.errors.generic_error) : trace[i][k].ok

-----------------------------------------------------------------------------
(* C6 *)

\* The transcription_done reply of update i.
FeedbackMsg(i) == Format(TEXTS.messages.transcription_done, "{text}", user_text[i])

\* The generation routine raised: its generic_error send failed.
GenerationRaised(i) ==
  \E k \in DOMAIN trace[i] :
    /\ trace[i][k].op = "reply" /\ ~trace[i][k].ok
    /\ trace[i][k].text = TEXTS.errors.generic_error

\* A failure in steps 2-4 of the voice handler reached its except block.
StepFailure(i) ==
  /\ IsVoice(i)
  /\ \/ \E k \in DOMAIN trace[i] :
          /\ ~trace[i][k].ok
          /\ \/ trace[i][k].op \in {"get_file", "download", "transcribe"}
             \/ /\ trace[i][k].op = "reply"
                /\ trace[i][k].text = FeedbackMsg(i)
     \/ GenerationRaised(i)

\* C6 as stated: after a failure in steps 2-4 the voice handler ends with
\* audio_error delivered to the user and without an error leaving it.
C6_FailureFullyAbsorbed ==
  \A i \in Updates :
    (StepFailure(i) /\ Ended(i)) =>
      /\ pc[i] = "returned"
      /\ \E k \in Sends(i, TEXTS.errors.audio_error) : trace[i][k].ok

\* C6 amended: after a failure in steps 2-4 (a failure inside the generation
\* routine counts only when the routine raises, that is when its
\* generic_error send failed) the handler's next and last remote operation
\* is one audio_error send; it returns normally if that send succeeds, and
\* the send's own failure leaves the handler if it does not.
C6_FailureAnsweredWithAudioError ==
  \A i \in Updates :
    StepFailure(i) =>
      \/ pc[i] = "v_audio_error" /\ Sends(i, TEXTS.errors.audio_error) = {}
      \/ /\ pc[i] \in {"v_finally", "returned", "raised"}
         /\ Sends(i, TEXTS.errors.audio_error) = {Len(trace[i])}
         /\ trace[i][Len(trace[i])].mode = "None"
         /\ pending[i] = ~trace[i][Len(trace[i])].ok
         /\ Ended(i) => (pc[i] = "returned" <=> trace[i][Len(trace[i])].ok)

\* The transcription failed, the audio_error send failed too, and the voice
\* handler ended abnormally.
C6_Witness ==
  \E i \in Updates :
    /\ IsVoice(i) /\ Failed(i, "transcribe")
    /\ pc[i] = "raised"
    /\ \E k \in Sends(i, TEXTS.errors.audio_error) : ~trace[i][k].ok

-----------------------------------------------------------------------------
(* C7 *)

DownloadFailed(i) ==
  IsVoice(i) /\ (Failed(i, "get_file") \/ Failed(i, "download"))

-----------------------------------------------------------------------------
(* C8 *)

\* C8: in the handling of a voice update every step comes at its place and
\* only after the step before it succeeded: processing notice, get_file and
\* download, transcription call, transcription_done reply, completion call,
\* disclaimer appended to the analysis, delivery of the response.
C8_VoiceStepOrder ==
  \A i \in Updates :
    IsVoice(i) =>
      /\ \A k \in DOMAIN trace[i] :
           LET e == trace[i][k]
               after(op) == k > 1 /\ trace[i][k - 1].op = op
                                  /\ trace[i][k - 1].ok
           IN /\ k = 1 => e = Ev("reply", TEXTS.messages.processing_audio,
                                  "None", e.ok)
              /\ e.op = "get_file" => k = 2 /\ trace[i][1].ok
              /\ e.op = "download" => k = 3 /\ after("get_file")
              /\ e.op = "transcribe" => k = 4 /\ after("download")
              /\ (e.op = "reply" /\ e.mode = "Markdown" /\ k < 6) =>
                   /\ k = 5 /\ after("transcribe")
                   /\ e.text = FeedbackMsg(i)
              /\ e.op = "complete" =>
                   /\ k = 6 /\ trace[i][5].ok
                   /\ trace[i][5].text = FeedbackMsg(i)
              /\ (/\ e.op = "reply" /\ full_response[i] # <<>>
                  /\ e.text = full_response[i]) =>
                   /\ k > 6 /\ trace[i][6].op = "complete" /\ trace[i][6].ok
              /\ e.op \in {"get_file", "download", "transcribe", "complete",
                           "reply"}
      /\ full_response[i] # <<>> =>
           /\ Len(trace[i]) >= 6 /\ trace[i][6].op = "complete"
           /\ completion[i] = "ok"
           /\ \E a \in Analyses :
                full_response[i] = a \o TEXTS.messages.footer_disclaimer
      /\ ResponseSends(i) # {} => 7 \in ResponseSends(i)

\* A voice update went through all seven steps and its response was
\* delivered in rich mode.
C8_Witness ==
  \E i \in Updates :
    /\ IsVoice(i) /\ pc[i] = "returned"
    /\ Len(trace[i]) = 7
    /\ trace[i][7] = Ev("reply", full_response[i], "Markdown", TRUE)

-----------------------------------------------------------------------------
(* C9 *)

\* C9: in the handling of a text update the typing indicator is the first
\* remote operation: every completion call and every message sent comes
\* after it (and after it succeeded).
C9_TypingBeforeGeneration ==
  \A i \in Updates :
    IsText(i) =>
      \A k \in At(i, "complete") \cup At(i, "reply") :
        /\ k > 1
        /\ trace[i][1] = Ev("typing", <<>>, "-", TRUE)

\* A text update whose completion call was made and whose response was sent.
C9_Witness ==
  \E i \in Updates :
    /\ IsText(i) /\ Ended(i)
    /\ At(i, "complete") # {}
    /\ ResponseSends(i) # {}

-----------------------------------------------------------------------------
(* C10 *)

\* C10: a failure of the typing indicator does not show: the text handler
\* still makes the completion call and the user is still sent a response
\* (the analysis or generic_error).
C10_TypingBestEffort ==
  \A i \in Updates :
    (IsText(i) /\ Failed(i, "typing") /\ Ended(i)) =>
      /\ At(i, "complete") # {}
      /\ ResponseSends(i) \cup Sends(i, TEXTS.errors.generic_error) # {}

-----------------------------------------------------------------------------
(* C11 *)

\* The text a command handler replies with.
CommandReply(h) ==
  IF h = "start_command" THEN TEXTS.messages.welcome
  ELSE TEXTS.messages.privacy

\* C11: the handling of /start (of /privacy) makes one remote operation
\* only, a rich-mode send of the welcome (privacy) text: no transcription
\* call, no completion call, and the temporary file is neither written, read
\* nor removed by it.
C11_CommandSendsOneMessage ==
  \A i \in Updates :
    handler[i] \in {"start_command", "privacy_command"} =>
      /\ \A k \in DOMAIN trace[i] :
           /\ k = 1
           /\ trace[i][k] = Ev("reply", CommandReply(handler[i]), "Markdown",
                               trace[i][k].ok)
      /\ Ended(i) <=> Len(trace[i]) = 1
      /\ completion[i] = "none" /\ chat_completion[i] = <<>>
      /\ audio[i] = <<>> /\ file # <<i>> /\ file_at_exit[i] = "unset"

\* A /start update answered with the welcome text and a /privacy update
\* answered with the privacy text.
C11_Witness ==
  \E i, j \in Updates :
    /\ update[i].text = <<"/start">> /\ pc[i] = "returned"
    /\ trace[i] = << Ev("reply", TEXTS.messages.welcome, "Markdown", TRUE) >>
    /\ update[j].text = <<"/privacy">> /\ pc[j] = "returned"
    /\ trace[j] = << Ev("reply", TEXTS.messages.privacy, "Markdown", TRUE) >>

-----------------------------------------------------------------------------
(* C12 *)

SecretMissing == Falsy(TELEGRAM_TOKEN) \/ Falsy(GROQ_API_KEY)

\* C12: while a required secret is missing or empty, startup never gets past
\* the validation: the bundle is not loaded, no handler is registered and no
\* update is given to a handler.
C12_MissingSecretAbortsStartup ==
  SecretMissing =>
    /\ phase \in {"import", "aborted"}
    /\ handlers = <<>>
    /\ bundle_keys = {}
    /\ \A i \in Updates :
         pc[i] = "waiting" /\ handler[i] = "unset" /\ trace[i] = <<>>

\* Startup aborted with the transport token set and the provider key empty.
C12_Witness ==
  /\ phase = "aborted"
  /\ ~Falsy(TELEGRAM_TOKEN)
  /\ GROQ_API_KEY = [set |-> TRUE, value |-> ""]

-----------------------------------------------------------------------------
(* C13 *)

\* C13: whenever an update has been given to a handler, the loaded bundle
\* holds every key the handlers read (a bundle lacking one aborted startup).
C13_KeysPresentWhenHandlersRun ==
  \A i \in Updates :
    pc[i] # "waiting" => BundleKeys \subseteq bundle_keys

-----------------------------------------------------------------------------
(* C14 *)

\* The template with its one placeholder replaced by the text.
Substituted(template, field, text) ==
  LET n == CHOOSE k \in DOMAIN template : template[k] = field
  IN SubSeq(template, 1, n - 1) \o text
       \o SubSeq(template, n + 1, Len(template))

\* The text the user gave: the message body, or the transcript of the voice.
GivenText(i) == IF IsVoice(i) THEN user_text[i] ELSE update[i].text

\* C14: the completion call carries the system prompt as its system message
\* and, as its user message, the wrapper template with user_input replaced
\* by the user's exact text; every send of the response carries the content
\* of the first choice, unaltered, followed by the disclaimer.
C14_RequestAndResponseText ==
  \A i \in Updates :
    \A k \in At(i, "complete") :
      /\ GivenText(i) \in Bodies \cup Transcripts
      /\ trace[i][k].text =
           << [role |-> "system", content |-> TEXTS.prompts.system_prompt],
              [role |-> "user",
               content |-> Substituted(TEXTS.prompts.user_input_wrapper,
                                       "{user_input}", GivenText(i))] >>
      /\ \A j \in At(i, "reply") :
           (j > k /\ trace[i][j].text \notin {TEXTS.errors.generic_error,
                                              TEXTS.errors.audio_error}) =>
             /\ completion[i] = "ok"
             /\ trace[i][j].text =
                  chat_completion[i][1] \o TEXTS.messages.footer_disclaimer
      /\ (completion[i] = "ok" /\ pc[i] # "g_rich") =>
           \E j \in At(i, "reply") :
             /\ j = k + 1
             /\ trace[i][j].text \in
                  { a \o TEXTS.messages.footer_disclaimer : a \in Analyses }

\* A text update whose response was delivered in rich mode.
C14_Witness ==
  \E i \in Updates :
    /\ IsText(i) /\ pc[i] = "returned"
    /\ \E a \in Analyses :
         trace[i][Len(trace[i])] =
           Ev("reply", a \o TEXTS.messages.footer_disclaimer, "Markdown", TRUE)

-----------------------------------------------------------------------------
(* C15 *)

\* The handler an update is meant for, by its kind.
HandlerFor(u) ==
  IF u.kind = "voice" THEN "handle_voice_message"
  ELSE IF u.kind # "text" THEN "none"
  ELSE IF u.text = <<"/start">> THEN "start_command"
  ELSE IF u.text = <<"/privacy">> THEN "privacy_command"
  ELSE IF u.text \in Bodies THEN "handle_text_message"
  ELSE "none"

\* The first remote operation of each handler.
FirstOperation(h) ==
  CASE h = "start_command" -> [op |-> "reply", text |-> TEXTS.messages.welcome]
    [] h = "privacy_command" ->
         [op |-> "reply", text |-> TEXTS.messages.privacy]
    [] h = "handle_voice_message" ->
         [op |-> "reply", text |-> TEXTS.messages.processing_audio]
    [] h = "handle_text_message" -> [op |-> "typing", text |-> <<>>]

\* C15: an update is given to one handler at most, the one of its kind, and
\* only that handler's steps run for it; an update of no registered kind
\* (another command, a message that is neither text nor voice) is dropped:
\* no handler, no message sent, no remote call.
C15_RoutedByKind ==
  \A i \in Updates :
    IF pc[i] = "waiting"
    THEN handler[i] = "unset" /\ trace[i] = <<>>
    ELSE /\ handler[i] = HandlerFor(update[i])
         /\ IF handler[i] = "none"
            THEN pc[i] = "ignored" /\ trace[i] = <<>>
            ELSE /\ pc[i] # "ignored"
                 /\ trace[i] # <<>> =>
                      /\ trace[i][1].op = FirstOperation(handler[i]).op
                      /\ trace[i][1].text = FirstOperation(handler[i]).text

\* An unregistered command was dropped while a text message was answered.
C15_Witness ==
  \E i, j \in Updates :
    /\ update[i].text = <<"/help">> /\ pc[i] = "ignored"
    /\ handler[j] = "handle_text_message" /\ pc[j] = "returned"

-----------------------------------------------------------------------------
(* C16 *)

\* C16: once a send of the generated response (rich or plain) has succeeded
\* it is the last remote operation of the update: no pre-scripted error
\* message and no other message follows it, and none was delivered before.
C16_NoMessageAfterDeliveredAnalysis ==
  \A i \in Updates :
    \A k \in ResponseSends(i) :
      trace[i][k].ok =>
        /\ k = Len(trace[i])
        /\ pc[i] \in {GenReturn(i), "returned"}
        /\ Sends(i, TEXTS.errors.generic_error) = {}
        /\ Sends(i, TEXTS.errors.audio_error) = {}

\* A voice update whose response was delivered by the plain retry.
C16_Witness ==
  \E i \in Updates :
    /\ IsVoice(i) /\ pc[i] = "returned"
    /\ Cardinality(ResponseSends(i)) = 2
    /\ trace[i][Len(trace[i])] = Ev("reply", full_response[i], "None", TRUE)

-----------------------------------------------------------------------------
(* C17 *)

\* C17: when the rich-mode transcription_done reply fails, it is not sent
\* again in any mode; no completion call is made although the transcription
\* succeeded, and the next remote operation is the audio_error send.
C17_NoFallbackForTranscriptionDone ==
  \A i \in Updates :
    IsVoice(i) =>
      \A k \in Sends(i, FeedbackMsg(i)) :
        /\ trace[i][k].mode = "Markdown"
        /\ Sends(i, FeedbackMsg(i)) = {k}
        /\ ~trace[i][k].ok =>
             /\ Succeeded(i, "transcribe")
             /\ At(i, "complete") = {}
             /\ ResponseSends(i) = {}
             /\ \/ pc[i] = "v_audio_error" /\ Len(trace[i]) = k
                \/ /\ Len(trace[i]) = k + 1
                   /\ trace[i][k + 1].op = "reply"
                   /\ trace[i][k + 1].text = TEXTS.errors.audio_error

\* The transcription_done reply failed, audio_error was delivered and the
\* handler returned.
C17_Witness ==
  \E i \in Updates :
    /\ IsVoice(i) /\ pc[i] = "returned"
    /\ \E k \in Sends(i, FeedbackMsg(i)) : ~trace[i][k].ok
    /\ \E k \in Sends(i, TEXTS.errors.audio_error) : trace[i][k].ok

-----------------------------------------------------------------------------
(* C18 *)

\* The sends of a pre-scripted error message that succeeded.
DeliveredErrors(i) ==
  { k \in DOMAIN trace[i] :
      /\ trace[i][k].op = "reply" /\ trace[i][k].ok
      /\ trace[i][k].text \in {TEXTS.errors.generic_error,
                                TEXTS.errors.audio_error} }

\* C18: for one update at most one pre-scripted error message is delivered,
\* the transcription endpoint and the completion endpoint are called at most
\* once each, and audio_error is sent after a completion call only when the
\* generic_error send failed.
C18_OneErrorMessageNoRetries ==
  \A i \in Updates :
    /\ Cardinality(DeliveredErrors(i)) <= 1
    /\ Cardinality(At(i, "transcribe")) <= 1
    /\ Cardinality(At(i, "complete")) <= 1
    /\ (At(i, "complete") # {} /\ Sends(i, TEXTS.errors.audio_error) # {}) =>
         GenerationRaised(i)

\* A voice update whose generic_error send failed and whose audio_error send
\* succeeded.
C18_Witness ==
  \E i \in Updates :
    /\ IsVoice(i) /\ pc[i] = "returned" /\ GenerationRaised(i)
    /\ Cardinality(DeliveredErrors(i)) = 1

=============================================================================
